---- MODULE Spec2Model ----
(***************************************************************************)
(* Model of lib/lua_sys/scripts/copy_lua.py, the PlatformIO pre-build      *)
(* script that stages lua/sys.lua into data/sys.lua.                       *)
(*                                                                         *)
(* The state is the part of the project tree the script reads or writes    *)
(* (data/, data/sys.lua, data/sys.lua/sys.lua, lua/, lua/sys.lua), and for *)
(* every invocation of the script its position (the source line it is      *)
(* about to execute), its console output and what it has called so far.    *)
(* The project root itself is an existing directory, and every entry is a  *)
(* regular file or a directory (no symbolic links or special files).       *)
(***************************************************************************)
EXTENDS Integers, Sequences, FiniteSets

\* ------------------------------------------------------------- bounds
MaxLen == 1
MaxTime == 2

Bytes == {"a", "b"}
Modes == {"0644", "0755"}
DefaultMode == "0644"
Invs == {1, 2}

Contents == UNION {[1..n -> Bytes] : n \in 0..MaxLen}

\* ------------------------------------------------------------- entries
Absent == [kind |-> "absent", content |-> <<>>, mtime |-> 0, mode |-> "none"]
Dir == [kind |-> "dir", content |-> <<>>, mtime |-> 0, mode |-> "none"]
File(c, t, m) == [kind |-> "file", content |-> c, mtime |-> t, mode |-> m]
Files == {File(c, t, m) : c \in Contents, t \in 1..MaxTime, m \in Modes}

\* The time at which invocation i runs: later than every initial timestamp,
\* and later for a later invocation.
Now(i) == MaxTime + i

\* ------------------------------------------------------------- messages
MsgCreated == "Created data directory: <data_dir>"
MsgCopied == "Copied sys.lua to data folder"
MsgWarning == "WARNING: sys.lua not found at <sys_lua_src>"
MsgCompleted == "Pre-build script completed"

VARIABLES fs, fs0, pc, out, calls, seen, fault, dst

vars == <<fs, fs0, pc, out, calls, seen, fault, dst>>

Ended == {"done", "aborted"}

\* The project trees a run can start from.
Trees ==
    {t \in [data : {"absent", "file", "dir"},
            dataSys : {Absent, Dir} \cup Files,
            nested : {Absent, Dir} \cup Files,
            lua : {"absent", "file", "dir"},
            luaSys : {Absent, Dir} \cup Files] :
        /\ t.dataSys.kind # "absent" => t.data = "dir"
        /\ t.nested.kind # "absent" => t.dataSys.kind = "dir"
        /\ t.luaSys.kind # "absent" => t.lua = "dir"}

Init ==
    /\ fs \in Trees
    /\ fs0 = [i \in Invs |-> fs]
    /\ pc = [i \in Invs |-> "idle"]
    /\ out = [i \in Invs |-> <<>>]
    /\ calls = [i \in Invs |-> <<>>]
    /\ seen = [i \in Invs |-> [data |-> "unknown", src |-> "unknown"]]
    /\ fault = [i \in Invs |-> "none"]
    /\ dst = [i \in Invs |-> "none"]

\* ------------------------------------------------------------- library calls
\* os.path.isfile in its place: only a regular file counts.
IsFile(k) == k = "file"

\* os.path.exists on an entry of the given kind.
Exists(k) == k # "absent"

YesNo(b) == IF b THEN "yes" ELSE "no"

\* os.makedirs(data_dir, exist_ok=True) in its place.
MakedirsExistOk(k) ==
    [error |-> "none", kind |-> IF k = "absent" THEN "dir" ELSE k]

\* os.makedirs(data_dir) with the project root present: mkdir, which raises
\* FileExistsError when any entry is already there.
Makedirs(k) ==
    IF k = "absent" THEN [error |-> "none", kind |-> "dir"]
    ELSE [error |-> "FileExistsError", kind |-> k]

\* The arguments of copy2 swapped: the copy lands on the source.
CopyTargetSwapped(t) == "luaSys"

\* shutil.copy2: a destination that is a directory means "into it, under the
\* source's base name".
CopyTarget(t) == IF t.dataSys.kind = "dir" THEN "nested" ELSE "dataSys"

\* What copy2's open(src, 'rb') and then open(dst, 'wb') raise on this tree.
CopyError(t) ==
    IF t.luaSys.kind = "absent" THEN "FileNotFoundError"
    ELSE IF t.luaSys.kind = "dir" THEN "IsADirectoryError"
    ELSE IF t.data = "absent" THEN "FileNotFoundError"
    ELSE IF t.data = "file" THEN "NotADirectoryError"
    ELSE IF t[CopyTarget(t)].kind = "dir" THEN "IsADirectoryError"
    ELSE "none"

\* open(dst, 'r+b') in its place: an existing file is not truncated.
OpenDstNoTruncate(e, now) ==
    IF e.kind = "file" THEN e ELSE File(<<>>, now, DefaultMode)

\* open(dst, 'wb'): creates the file with the default mode, or truncates it.
OpenDst(e, now) ==
    IF e.kind = "file" THEN [e EXCEPT !.content = <<>>, !.mtime = now]
    ELSE File(<<>>, now, DefaultMode)

\* Writing all of src from offset 0 of the open destination.
Overlay(cur, src) ==
    IF Len(cur) > Len(src) THEN src \o SubSeq(cur, Len(src) + 1, Len(cur))
    ELSE src

WriteDst(e, src, now) ==
    [e EXCEPT !.content = Overlay(e.content, src.content), !.mtime = now]

\* shutil.copy in place of copy2: the permission bits only.
CopyStatModeOnly(e, src) == [e EXCEPT !.mode = src.mode]

\* shutil.copystat: permission bits and modification time of the source.
CopyStat(e, src) == [e EXCEPT !.mtime = src.mtime, !.mode = src.mode]

\* ------------------------------------------------------------- control flow
\* Line 17 without its "not".
DataBranchInverted(exists) == IF exists THEN "l18" ELSE "l25"
\* Line 17: the directory is created only when nothing is there.
DataBranch(exists) == IF exists THEN "l25" ELSE "l18"

\* Line 19 left out.
AfterMakedirsSilent == "l25"
\* Lines 18-19: the creation is followed by its message.
AfterMakedirs == "l19"

\* Line 25 left out: the copy is attempted whatever is there.
SrcBranchAlwaysCopy(exists) == "l26"
\* Lines 25-29: copy, or warn.
SrcBranch(exists) == IF exists THEN "l26" ELSE "l29"

\* Line 31 indented into the copy branch.
AfterWarningNoCompletion == "done"
\* Lines 29-31: the warning is followed by the completion message.
AfterWarning == "l31"

\* The body wrapped in try/except: pass, before line 31.
OnFaultSwallowed == "l31"
\* No try/except anywhere: an exception ends the script.
OnFault == "aborted"

\* ------------------------------------------------------------- the script
Call(i, op) == calls' = [calls EXCEPT ![i] = Append(@, op)]
Emit(i, msg) == out' = [out EXCEPT ![i] = Append(@, msg)]
Goto(i, label) == pc' = [pc EXCEPT ![i] = label]
Raise(i, exc) ==
    /\ fault' = [fault EXCEPT ![i] = exc]
    /\ Goto(i, OnFault)

\* Lines 12-14: the build tool invokes the script; the paths are derived.
\* Invocations of one build follow each other.
Start(i) ==
    /\ pc[i] = "idle"
    /\ \A j \in Invs : j < i => pc[j] \in Ended
    /\ Goto(i, "l17")
    /\ fs0' = [fs0 EXCEPT ![i] = fs]
    /\ UNCHANGED <<fs, out, calls, seen, fault, dst>>

\* Two builds started against the same project root, with no order between them.
StartConcurrently(i) ==
    /\ pc[i] = "idle"
    /\ Goto(i, "l17")
    /\ fs0' = [fs0 EXCEPT ![i] = fs]
    /\ UNCHANGED <<fs, out, calls, seen, fault, dst>>

\* Line 17: if not os.path.exists(data_dir)
CheckDataDir(i) ==
    /\ pc[i] = "l17"
    /\ Call(i, "exists(data_dir)")
    /\ seen' = [seen EXCEPT ![i].data = YesNo(Exists(fs.data))]
    /\ Goto(i, DataBranch(Exists(fs.data)))
    /\ UNCHANGED <<fs, fs0, out, fault, dst>>

\* Line 18: os.makedirs(data_dir)
CreateDataDir(i) ==
    /\ pc[i] = "l18"
    /\ Call(i, "makedirs")
    /\ LET r == Makedirs(fs.data) IN
        IF r.error = "none"
        THEN /\ fs' = [fs EXCEPT !.data = r.kind]
             /\ Goto(i, AfterMakedirs)
             /\ UNCHANGED fault
        ELSE /\ Raise(i, r.error)
             /\ UNCHANGED fs
    /\ UNCHANGED <<fs0, out, seen, dst>>

\* Line 19: print(f"Created data directory: {data_dir}")
PrintCreated(i) ==
    /\ pc[i] = "l19"
    /\ Emit(i, MsgCreated)
    /\ Goto(i, "l25")
    /\ UNCHANGED <<fs, fs0, calls, seen, fault, dst>>

\* Line 25: if os.path.exists(sys_lua_src)
CheckSource(i) ==
    /\ pc[i] = "l25"
    /\ Call(i, "exists(sys_lua_src)")
    /\ seen' = [seen EXCEPT ![i].src = YesNo(Exists(fs.luaSys.kind))]
    /\ Goto(i, SrcBranch(Exists(fs.luaSys.kind)))
    /\ UNCHANGED <<fs, fs0, out, fault, dst>>

\* Line 26: shutil.copy2(sys_lua_src, sys_lua_dst), first part: the
\* destination is resolved, the source opened, the destination opened for
\* writing (created or truncated).
CopyOpen(i) ==
    /\ pc[i] = "l26"
    /\ Call(i, "copy2")
    /\ IF CopyError(fs) = "none"
       THEN /\ fs' = [fs EXCEPT ![CopyTarget(fs)] = OpenDst(@, Now(i))]
            /\ dst' = [dst EXCEPT ![i] = CopyTarget(fs)]
            /\ Goto(i, "l26w")
            /\ UNCHANGED fault
       ELSE /\ Raise(i, CopyError(fs))
            /\ UNCHANGED <<fs, dst>>
    /\ UNCHANGED <<fs0, out, seen>>

\* Line 26, second part: the content is written.
CopyWrite(i) ==
    /\ pc[i] = "l26w"
    /\ fs' = [fs EXCEPT ![dst[i]] = WriteDst(@, fs.luaSys, Now(i))]
    /\ Goto(i, "l26s")
    /\ UNCHANGED <<fs0, out, calls, seen, fault, dst>>

\* Line 26, third part: copystat.
CopyMetadata(i) ==
    /\ pc[i] = "l26s"
    /\ fs' = [fs EXCEPT ![dst[i]] = CopyStat(@, fs.luaSys)]
    /\ Goto(i, "l27")
    /\ UNCHANGED <<fs0, out, calls, seen, fault, dst>>

\* Line 27: print(f"Copied sys.lua to data folder")
PrintCopied(i) ==
    /\ pc[i] = "l27"
    /\ Emit(i, MsgCopied)
    /\ Goto(i, "l31")
    /\ UNCHANGED <<fs, fs0, calls, seen, fault, dst>>

\* Line 29: print(f"WARNING: sys.lua not found at {sys_lua_src}")
PrintWarning(i) ==
    /\ pc[i] = "l29"
    /\ Emit(i, MsgWarning)
    /\ Goto(i, AfterWarning)
    /\ UNCHANGED <<fs, fs0, calls, seen, fault, dst>>

\* Line 31: print("Pre-build script completed")
PrintCompleted(i) ==
    /\ pc[i] = "l31"
    /\ Emit(i, MsgCompleted)
    /\ Goto(i, "done")
    /\ UNCHANGED <<fs, fs0, calls, seen, fault, dst>>

\* A filesystem call fails for a reason outside the modelled tree (permission
\* denied, disk full, I/O error): it raises OSError and changes nothing more.
FilesystemFault(i) ==
    /\ pc[i] \in {"l18", "l26", "l26w", "l26s"}
    /\ IF pc[i] = "l18" THEN Call(i, "makedirs")
       ELSE IF pc[i] = "l26" THEN Call(i, "copy2")
       ELSE UNCHANGED calls
    /\ Raise(i, "OSError")
    /\ UNCHANGED <<fs, fs0, out, seen, dst>>

Step(i) ==
    \/ CheckDataDir(i)
    \/ CreateDataDir(i)
    \/ PrintCreated(i)
    \/ CheckSource(i)
    \/ CopyOpen(i)
    \/ CopyWrite(i)
    \/ CopyMetadata(i)
    \/ PrintCopied(i)
    \/ PrintWarning(i)
    \/ PrintCompleted(i)

\* One build after the other, on a filesystem whose calls fail only for what
\* the tree holds.
Next == \E i \in Invs : Start(i) \/ Step(i)
Spec == Init /\ [][Next]_vars

\* The same, with filesystem calls that may fail for outside reasons.
NextFault == \E i \in Invs : Start(i) \/ Step(i) \/ FilesystemFault(i)
SpecFault == Init /\ [][NextFault]_vars

\* Two builds at once.
NextConc == \E i \in Invs : StartConcurrently(i) \/ Step(i)
SpecConc == Init /\ [][NextConc]_vars

\* ------------------------------------------------------------- vocabulary
Has(s, x) == \E k \in 1..Len(s) : s[k] = x
Count(s, x) == Cardinality({k \in 1..Len(s) : s[k] = x})
Started(i) == pc[i] # "idle"
Running(i) == pc[i] \notin Ended \cup {"idle"}
\* Invocation i has ended and no later one has begun.
AfterRun(i) == pc[i] \in Ended /\ \A j \in Invs : j > i => pc[j] = "idle"
\* Invocation i has run to its last line and no later one has begun.
AfterCompletedRun(i) == pc[i] = "done" /\ \A j \in Invs : j > i => pc[j] = "idle"
\* data/sys.lua is a file with the content, modification time and permission
\* bits of lua/sys.lua.
StagedCopy(t) ==
    /\ t.dataSys.kind = "file"
    /\ t.dataSys.content = t.luaSys.content
    /\ t.dataSys.mtime = t.luaSys.mtime
    /\ t.dataSys.mode = t.luaSys.mode
\* The exists-guarded makedirs of invocation i was called and returned.
CreatedByRun(i) ==
    /\ Has(calls[i], "makedirs")
    /\ ~(fault[i] # "none" /\ calls[i][Len(calls[i])] = "makedirs")

\* ------------------------------------------------------------- C1
\* C1 as stated: for every tree in which lua/sys.lua exists (data/sys.lua
\* absent or a file with any content), after one run data/sys.lua exists with
\* the source's content, modification time and permission bits.
C1_AsClaimed ==
    \A i \in Invs :
        (/\ AfterRun(i)
         /\ Exists(fs0[i].luaSys.kind)
         /\ fs0[i].dataSys.kind \in {"absent", "file"})
        => StagedCopy(fs)

\* C1 amended: when lua/sys.lua exists and data/sys.lua is absent or a regular
\* file, after a run that reaches its last line data/sys.lua is a file whose
\* content, modification time and permission bits are those of lua/sys.lua
\* and nothing of the previous content is left; a run on a tree where
\* lua/sys.lua is a directory or data is a regular file is aborted by the
\* copy and leaves data/sys.lua as it was.
C1_CopyLaw ==
    \A i \in Invs :
        /\ (/\ AfterCompletedRun(i)
            /\ Exists(fs0[i].luaSys.kind)
            /\ fs0[i].dataSys.kind \in {"absent", "file"})
           => /\ StagedCopy(fs)
              /\ fs.luaSys = fs0[i].luaSys
        /\ (/\ AfterRun(i)
            /\ \/ fs0[i].luaSys.kind = "dir"
               \/ fs0[i].luaSys.kind = "file" /\ fs0[i].data = "file")
           => /\ pc[i] = "aborted"
              /\ fs.dataSys = fs0[i].dataSys

\* A stale, longer, differently stamped data/sys.lua was overwritten.
C1_Witness ==
    /\ AfterCompletedRun(1)
    /\ fs0[1].luaSys.kind = "file"
    /\ fs0[1].dataSys.kind = "file"
    /\ Len(fs0[1].dataSys.content) > Len(fs0[1].luaSys.content)
    /\ fs0[1].dataSys.mtime # fs0[1].luaSys.mtime
    /\ fs0[1].dataSys.mode # fs0[1].luaSys.mode
    /\ StagedCopy(fs)

\* ------------------------------------------------------------- C2
\* C2: when lua/sys.lua does not exist (lua/ itself may be missing), a run
\* leaves data/sys.lua exactly as it was, raises nothing, prints the warning
\* and ends with the completion message.
C2_MissingSourceSkips ==
    \A i \in Invs :
        (Started(i) /\ fs0[i].luaSys.kind = "absent")
        => /\ fault[i] = "none"
           /\ fs.dataSys = fs0[i].dataSys
           /\ fs.nested = fs0[i].nested
           /\ ~Has(calls[i], "copy2")
           /\ Running(i) => ENABLED Step(i)
           /\ pc[i] \in Ended
              => /\ pc[i] = "done"
                 /\ Count(out[i], MsgWarning) = 1
                 /\ out[i][Len(out[i])] = MsgCompleted

\* No lua/ at all, a stale data/sys.lua: warned, completed, nothing touched.
C2_Witness ==
    /\ AfterRun(1)
    /\ fs0[1].lua = "absent"
    /\ fs0[1].dataSys.kind = "file"
    /\ fs.dataSys = fs0[1].dataSys
    /\ Has(out[1], MsgWarning)

\* ------------------------------------------------------------- C3
\* C3: if data/ does not exist before a run, the run creates it as a
\* directory before it looks for lua/sys.lua, whether or not that exists.
C3_DataDirCreated ==
    \A i \in Invs :
        (/\ fs0[i].data = "absent"
         /\ pc[i] \in Ended \/ Has(calls[i], "exists(sys_lua_src)"))
        => /\ fs.data = "dir"
           /\ Len(calls[i]) >= 3
           /\ calls[i][2] = "makedirs"
           /\ calls[i][3] = "exists(sys_lua_src)"

\* data/ was missing, lua/sys.lua was there, the run has ended.
C3_Witness ==
    /\ AfterRun(1)
    /\ fs0[1].data = "absent"
    /\ fs0[1].luaSys.kind = "file"
    /\ fs.data = "dir"

\* ------------------------------------------------------------- C4
\* C4: a second run right after the first, lua/sys.lua untouched in between,
\* leaves the tree exactly as the first run left it.
C4_Idempotent ==
    (pc[1] \in Ended /\ pc[2] \in Ended) => fs = fs0[2]

\* Both runs copied, and the first one had changed data/sys.lua.
C4_Witness ==
    /\ pc[1] = "done"
    /\ pc[2] = "done"
    /\ Has(out[1], MsgCopied)
    /\ Has(out[2], MsgCopied)
    /\ fs0[1].dataSys # fs0[2].dataSys

\* ------------------------------------------------------------- C5
\* C5 as stated: every run ends having printed exactly one of "Copied" and
\* "WARNING", and the completion message once, last.
C5_AsClaimed ==
    \A i \in Invs :
        pc[i] \in Ended
        => /\ Count(out[i], MsgCopied) + Count(out[i], MsgWarning) = 1
           /\ Count(out[i], MsgCompleted) = 1
           /\ out[i][Len(out[i])] = MsgCompleted

\* C5 amended: every run that no exception aborts ends having printed
\* exactly one of "Copied" and "WARNING" and then the completion message,
\* once, last; no run prints both; a run that an exception aborts prints
\* none of the three.
C5_TwoOutcomes ==
    \A i \in Invs :
        /\ Count(out[i], MsgCopied) + Count(out[i], MsgWarning) <= 1
        /\ pc[i] = "done"
           => /\ Count(out[i], MsgCopied) + Count(out[i], MsgWarning) = 1
              /\ Count(out[i], MsgCompleted) = 1
              /\ out[i][Len(out[i])] = MsgCompleted
        /\ pc[i] = "aborted"
           => /\ fault[i] # "none"
              /\ ~Has(out[i], MsgCopied)
              /\ ~Has(out[i], MsgWarning)
              /\ ~Has(out[i], MsgCompleted)
        /\ Running(i) => ENABLED Step(i)

\* A run that created data/, copied and completed.
C5_Witness ==
    /\ pc[1] = "done"
    /\ out[1] = <<MsgCreated, MsgCopied, MsgCompleted>>

\* ------------------------------------------------------------- C6
\* C6: a filesystem call that raises (makedirs, or any part of copy2) ends
\* the script there: the call is not made again, nothing after it is
\* executed, and neither the message of the failed step nor the completion
\* message is printed.
C6_FaultAborts ==
    \A i \in Invs :
        /\ Count(calls[i], "makedirs") <= 1
        /\ Count(calls[i], "copy2") <= 1
        /\ fault[i] # "none"
           => /\ pc[i] = "aborted"
              /\ ~ENABLED Step(i)
              /\ ~Has(out[i], MsgCompleted)
              /\ calls[i][Len(calls[i])] \in {"makedirs", "copy2"}
              /\ calls[i][Len(calls[i])] = "makedirs"
                 => /\ out[i] = <<>>
                    /\ calls[i] = <<"exists(data_dir)", "makedirs">>
              /\ calls[i][Len(calls[i])] = "copy2"
                 => out[i] \in {<<>>, <<MsgCreated>>}
        /\ pc[i] = "aborted" => fault[i] # "none"

\* The copy raised after data/ had been created and announced.
C6_Witness ==
    /\ pc[1] = "aborted"
    /\ fault[1] = "OSError"
    /\ calls[1][Len(calls[1])] = "copy2"
    /\ out[1] = <<MsgCreated>>

\* os.makedirs itself raised.
C6_WitnessMakedirs ==
    /\ pc[1] = "aborted"
    /\ calls[1] = <<"exists(data_dir)", "makedirs">>
    /\ fs.data = "absent"

\* ------------------------------------------------------------- C7
\* The trees the script is written for: data/ missing or a directory,
\* data/sys.lua and lua/sys.lua missing or regular files.
RegularTree(t) ==
    /\ t.data \in {"absent", "dir"}
    /\ t.dataSys.kind \in {"absent", "file"}
    /\ t.luaSys.kind \in {"absent", "file"}

BothEnded == \A i \in Invs : pc[i] \in Ended

C7_WitnessRace ==
    /\ BothEnded
    /\ \A i \in Invs : RegularTree(fs0[i]) /\ seen[i].data = "no"
    /\ \E i \in Invs : fault[i] = "FileExistsError"

\* ------------------------------------------------------------- C8
Rank(msg) ==
    IF msg = MsgCreated THEN 1
    ELSE IF msg = MsgCompleted THEN 3
    ELSE 2

\* C8: "Created data directory" is printed by a run exactly when the run
\* found data/ missing and created it; a run that finds data/ there neither
\* creates it nor prints the message; and the messages of a run come in the
\* order Created, Copied or WARNING, completed.
C8_CreatedMessage ==
    \A i \in Invs :
        /\ Has(out[i], MsgCreated)
           => /\ seen[i].data = "no"
              /\ CreatedByRun(i)
              /\ fs0[i].data = "absent"
              /\ fs.data = "dir"
        /\ (seen[i].data = "no" /\ CreatedByRun(i) /\ pc[i] # "l19")
           => Count(out[i], MsgCreated) = 1
        /\ seen[i].data = "yes"
           => /\ ~Has(calls[i], "makedirs")
              /\ ~Has(out[i], MsgCreated)
              /\ fs.data = fs0[i].data
        /\ \A k \in 1..Len(out[i]) :
            \A l \in 1..Len(out[i]) :
                k < l => Rank(out[i][k]) < Rank(out[i][l])

\* All three messages of a run, in order.
C8_Witness ==
    /\ pc[1] = "done"
    /\ out[1] = <<MsgCreated, MsgWarning, MsgCompleted>>
    /\ pc[2] = "done"
    /\ out[2] = <<MsgWarning, MsgCompleted>>

\* ------------------------------------------------------------- C9
NothingDeleted(before, after) ==
    /\ Exists(before.data) => after.data = before.data
    /\ Exists(before.dataSys.kind) => after.dataSys.kind = before.dataSys.kind
    /\ Exists(before.nested.kind) => after.nested.kind = before.nested.kind
    /\ after.data \in {before.data, "dir"}

\* C9 as stated: whatever the tree, a run creates or modifies nothing but
\* data/ and data/sys.lua; lua/, lua/sys.lua and every other entry inside
\* data/ stay as they were, and nothing is deleted.
C9_AsClaimed ==
    \A i \in Invs :
        Started(i)
        => /\ fs.lua = fs0[i].lua
           /\ fs.luaSys = fs0[i].luaSys
           /\ fs.nested = fs0[i].nested
           /\ NothingDeleted(fs0[i], fs)

\* C9 amended: a run never creates, modifies or deletes lua/ or lua/sys.lua
\* and deletes nothing; what it creates or modifies is data/ and the file
\* data/sys.lua, except that when data/sys.lua is a directory the copy goes
\* into it, to data/sys.lua/sys.lua, and data/sys.lua itself stays as it was.
C9_Frame ==
    \A i \in Invs :
        Started(i)
        => /\ fs.lua = fs0[i].lua
           /\ fs.luaSys = fs0[i].luaSys
           /\ NothingDeleted(fs0[i], fs)
           /\ fs0[i].dataSys.kind # "dir" => fs.nested = fs0[i].nested
           /\ fs0[i].dataSys.kind = "dir" => fs.dataSys = fs0[i].dataSys
           /\ fs.nested # fs0[i].nested
              => /\ fs0[i].luaSys.kind = "file"
                 /\ Has(calls[i], "copy2") \/ \E j \in Invs : j > i /\ Has(calls[j], "copy2")

\* A completed run that changed data/ and data/sys.lua and nothing else.
C9_Witness ==
    /\ AfterCompletedRun(1)
    /\ fs0[1].data = "absent"
    /\ fs.data = "dir"
    /\ fs.dataSys.kind = "file"
    /\ fs.luaSys = fs0[1].luaSys
    /\ fs.nested = fs0[1].nested

\* ------------------------------------------------------------- C10
\* C10: both guards test that something exists, not what it is: a run calls
\* copy2 exactly when some entry, of whatever kind, is at lua/sys.lua, prints
\* the warning exactly when none is, and calls makedirs exactly when no
\* entry, of whatever kind, is at data.
C10_GuardsTestExistence ==
    \A i \in Invs :
        /\ Has(calls[i], "copy2") => Exists(fs0[i].luaSys.kind)
        /\ Has(out[i], MsgWarning) => ~Exists(fs0[i].luaSys.kind)
        /\ Has(calls[i], "makedirs") => ~Exists(fs0[i].data)
        /\ pc[i] \in Ended
           => /\ Has(calls[i], "copy2") <=> Exists(fs0[i].luaSys.kind)
              /\ Has(out[i], MsgWarning) <=> ~Exists(fs0[i].luaSys.kind)
              /\ Has(calls[i], "makedirs") <=> ~Exists(fs0[i].data)
        /\ seen[i].data # "unknown" => seen[i].data = YesNo(fs0[i].data # "absent")
        /\ seen[i].src # "unknown" => seen[i].src = YesNo(fs0[i].luaSys.kind # "absent")

\* data is a regular file and lua/sys.lua a directory: no makedirs, and the
\* copy was attempted.
C10_Witness ==
    /\ pc[1] \in Ended
    /\ fs0[1].data = "file"
    /\ fs0[1].luaSys.kind = "dir"
    /\ ~Has(calls[1], "makedirs")
    /\ Has(calls[1], "copy2")
    /\ ~Has(out[1], MsgWarning)

====
